---- MODULE Spec2Model ----
(***************************************************************************)
(* awsssologin: one invocation of the command line tool.                   *)
(*                                                                         *)
(* The run is  main -> runSSO -> getCredentials -> (flag | stdin) device   *)
(* URL -> automateBrowserLogin.  The browser, the terminal, the            *)
(* environment and the TOTP library are collaborators: every call made to  *)
(* one of them is appended to `trace`, in program order, and its outcome   *)
(* is drawn nondeterministically where the collaborator decides it.        *)
(* `elapsed` is the time, in seconds, the run has spent waiting so far.    *)
(*                                                                         *)
(* src/ holds two revisions of getCredentials / promptForInput             *)
(* (src/config.go and src/main.go); `build` says which one is linked.      *)
(***************************************************************************)
EXTENDS Integers, Sequences, FiniteSets, TLC

VARIABLES build, flags, env, config, pc, step, deviceURL, totpCode, err, ret,
          result, exitCode, trace, elapsed

vars == <<build, flags, env, config, pc, step, deviceURL, totpCode, err, ret,
          result, exitCode, trace, elapsed>>

-----------------------------------------------------------------------------
(* Bounds of the model *)

MaxTimeout == 2     \* --timeout is -1, 0 or MaxTimeout
MaxDelay == 3       \* an element shows up MaxDelay seconds after the lookup
                    \* starts at the latest
MaxLines == 2       \* at most MaxLines lines are available on standard input

-----------------------------------------------------------------------------
(* Program constants *)

BrowserCloseDelay == 300
XPathUsername == "//*[@id=\"awsui-input-0\"]"
XPathPassword == "//*[@id=\"awsui-input-1\"]"
XPathTOTP == "//*[@id=\"awsui-input-2\"]"
XPathAllow1 == "//*[@id=\"cli_verification_btn\"]"
XPathAllow2 == "//*[@data-testid=\"allow-access-button\"]"
XPathSuccess == "//*[@data-analytics-alert=\"success\"]"

-----------------------------------------------------------------------------
(* Text.  A string that the program parses is a sequence of tokens: the    *)
(* literal pieces of a device URL, single characters of a user code, and   *)
(* pieces of other text.                                                   *)

Scheme == "https://"
PathPart == ".awsapps.com/start/#/device?user_code="
CodeChars == {"A", "7", "-"}            \* members of [A-Z0-9-]
HostNames == {"pashapay", "acme-1"}     \* members of [a-zA-Z0-9-]+

URL(host, code) == <<Scheme, host, PathPart>> \o code

UrlPasha == URL("pashapay", <<"A", "-", "7">>)
UrlPasha2 == URL("pashapay", <<"7", "7">>)
UrlAcme == URL("acme-1", <<"A", "-", "7">>)
UrlBad == <<"http://", "evil_host!", "/login">>

\* the lines the AWS CLI (or anything else) may write to standard input
StdinLines ==
    { <<"open", " ">> \o UrlPasha \o <<" ", "or", " ">> \o UrlPasha2 \o <<" ", "text">>,
      <<"text", " ">> \o UrlAcme }

\* length of the longest run of user-code characters of s that starts at i
RECURSIVE CodeRun(_, _)
CodeRun(s, i) ==
    IF i <= Len(s) /\ s[i] \in CodeChars THEN 1 + CodeRun(s, i + 1) ELSE 0

\* DeviceURLRegex matches s at position i
DeviceURLRegex(s, i) ==
    /\ i + 3 <= Len(s)
    /\ s[i] = Scheme
    /\ s[i + 1] = "pashapay"
    /\ s[i + 2] = PathPart
    /\ CodeRun(s, i + 3) >= 1

\* regexp.FindString: the leftmost match, the code part greedy; <<>> if none
FindString(s) ==
    LET starts == { i \in 1..Len(s) : DeviceURLRegex(s, i) }
    IN  IF starts = {} THEN <<>>
        ELSE LET i == CHOOSE j \in starts : \A k \in starts : j <= k
             IN  SubSeq(s, i, i + 2 + CodeRun(s, i + 3))

\* strings.TrimSpace on the answers a user can type
TrimSpace(s) == IF s = " " THEN "" ELSE s

\* totp.GenerateCode(secret, time.Now()): base32-decodes the secret and
\* derives the code of the current time step from it
GenerateCode(secret) ==
    CASE secret = "" -> [ok |-> TRUE, val |-> "000000"]
      [] secret = "JBSWY3DP" -> [ok |-> TRUE, val |-> "111111"]
      [] secret = "MFRGGZDF" -> [ok |-> TRUE, val |-> "222222"]
      [] OTHER -> [ok |-> FALSE, val |-> ""]

-----------------------------------------------------------------------------
(* Errors and collaborator calls *)

Error(kind, desc, xpath, cause) ==
    [kind |-> kind, desc |-> desc, xpath |-> xpath, cause |-> cause]

nil == Error("nil", "", "", "")

\* one call to a collaborator and whether it succeeded; url is the URL
\* passed to the call, or the line of text the call read from standard input
Call(op, xpath, val, url, ok) ==
    [op |-> op, xpath |-> xpath, val |-> val, url |-> url, ok |-> ok]

-----------------------------------------------------------------------------
(* Initial state: the command line has been parsed into the Config.        *)

NoURL == <<>>

\* where the credentials come from: f* is the flag, e* the environment
\* variable; U the username, P the password, S the TOTP secret, e2 the
\* literal code of AWSSSOLOGIN_2FA
AllSources ==
    [ fU : {"", "alice"}, eU : {"", "bob"},
      fP : {"", "pw-flag"}, eP : {"", "pw-env"},
      fS : {"", "JBSWY3DP", "not-base32!"}, eS : {"", "MFRGGZDF"},
      e2 : {"", "123456"} ]

UsernameByFlag(i) == i.fU # "" /\ i.eU = ""
PasswordByFlag(i) == i.fP # "" /\ i.eP = ""
SecretByFlag(i) == i.fS = "JBSWY3DP" /\ i.eS = "" /\ i.e2 = ""
NothingByFlag(i) == i.fU = "" /\ i.fP = "" /\ i.fS = "" /\ i.e2 = ""

\* the inputs of the model: every combination of flag and environment for
\* one credential while the other two are given by flag, everything from
\* the environment, and nothing given at all
Sources ==
    { i \in AllSources :
        \/ UsernameByFlag(i) /\ PasswordByFlag(i)
        \/ UsernameByFlag(i) /\ SecretByFlag(i)
        \/ PasswordByFlag(i) /\ SecretByFlag(i)
        \/ NothingByFlag(i) /\ i.eU = "" /\ i.eP = "" /\ i.eS = ""
        \/ NothingByFlag(i) /\ i.eU # "" /\ i.eP # "" /\ i.eS # "" }

Timeouts == {-1, 0, MaxTimeout}

\* the Config after flag parsing; no flag is bound to TwoFA or InteractiveTOTP
FlagConfig(i, url, show, timeout) ==
    [ Username |-> i.fU,
      Password |-> i.fP,
      TwoFA |-> "",
      TOTPSecret |-> i.fS,
      DeviceURL |-> url,
      ShowBrowser |-> show,
      TimeoutSeconds |-> timeout,
      InteractiveTOTP |-> FALSE ]

Environment(i) ==
    [ AWSSSOLOGIN_USERNAME |-> i.eU,
      AWSSSOLOGIN_PASSWORD |-> i.eP,
      AWSSSOLOGIN_2FA |-> i.e2,
      AWSSSOLOGIN_TOTP_SECRET |-> i.eS ]

\* what a user (or the pipe) answers to a prompt: end of input, or a line
EOF == "<EOF>"
Answers == {EOF, "", " ", "typed"}

Init ==
    /\ build \in {"config.go", "main.go"}
    /\ \E i \in Sources, url \in {NoURL, UrlAcme, UrlBad}, show \in BOOLEAN,
          timeout \in Timeouts :
          /\ flags = FlagConfig(i, url, show, timeout)
          /\ env = Environment(i)
    /\ config = flags
    /\ pc = "getCredentials"
    /\ step = 0
    /\ deviceURL = NoURL
    /\ totpCode = ""
    /\ err = nil
    /\ ret = nil
    /\ result = nil
    /\ exitCode = -1
    /\ trace = <<>>
    /\ elapsed = 0

-----------------------------------------------------------------------------
(* Credential resolution *)

promptForInputAccepting(ans, secure) ==
    IF ans = EOF THEN [ok |-> FALSE, val |-> ""]
    ELSE [ok |-> TRUE, val |-> IF secure THEN ans ELSE TrimSpace(ans)]

\* promptForInput of src/config.go: an empty answer is an error
promptForInput(ans, secure) ==
    IF ans = EOF THEN [ok |-> FALSE, val |-> ""]
    ELSE LET input == IF secure THEN ans ELSE TrimSpace(ans)
         IN  IF input = "" THEN [ok |-> FALSE, val |-> ""]
             ELSE [ok |-> TRUE, val |-> input]

\* promptForInput of src/main.go: whatever was typed is returned
promptForInputMain(ans, secure) ==
    IF ans = EOF THEN [ok |-> FALSE, val |-> ""]
    ELSE [ok |-> TRUE, val |-> IF secure THEN ans ELSE TrimSpace(ans)]

\* a prompt: what is asked, the line that was answered, whether
\* promptForInput returned a value
Prompt(what, ans, ok) == Call("prompt", "", what, <<ans>>, ok)

FromEnvEnvFirst(c, e) ==
    [c EXCEPT
        !.Username = IF e.AWSSSOLOGIN_USERNAME # "" THEN e.AWSSSOLOGIN_USERNAME ELSE @,
        !.Password = IF e.AWSSSOLOGIN_PASSWORD # "" THEN e.AWSSSOLOGIN_PASSWORD ELSE @,
        !.TwoFA = IF e.AWSSSOLOGIN_2FA # "" THEN e.AWSSSOLOGIN_2FA ELSE @,
        !.TOTPSecret = IF e.AWSSSOLOGIN_TOTP_SECRET # "" THEN e.AWSSSOLOGIN_TOTP_SECRET ELSE @]

\* the "CLI -> ENV" part of getCredentials (src/config.go)
FromEnv(c, e) ==
    [c EXCEPT
        !.Username = IF @ = "" THEN e.AWSSSOLOGIN_USERNAME ELSE @,
        !.Password = IF @ = "" THEN e.AWSSSOLOGIN_PASSWORD ELSE @,
        !.TwoFA = IF @ = "" THEN e.AWSSSOLOGIN_2FA ELSE @,
        !.TOTPSecret = IF @ = "" THEN e.AWSSSOLOGIN_TOTP_SECRET ELSE @]

hasIncompleteCredentialsNoPassword(c) ==
    c.Username = "" \/ (c.TwoFA = "" /\ c.TOTPSecret = "")

hasIncompleteCredentials(c) ==
    c.Username = "" \/ c.Password = "" \/ (c.TwoFA = "" /\ c.TOTPSecret = "")

\* deviceURLValidationPattern.MatchString: the whole string is a device URL
deviceURLValidationPattern(s) ==
    /\ Len(s) >= 4
    /\ s[1] = Scheme
    /\ s[2] \in HostNames
    /\ s[3] = PathPart
    /\ CodeRun(s, 4) = Len(s) - 3

validateDeviceURL(url) ==
    IF ~deviceURLValidationPattern(url)
    THEN Error("config", "", "", "URL does not match expected AWS SSO device URL pattern")
    ELSE nil

\* Config.ValidateConfig; nothing under src/ calls it
ValidateConfig(c) ==
    IF c.TimeoutSeconds <= 0
    THEN Error("config", "", "", "timeout must be at least 1 second")
    ELSE IF c.DeviceURL # NoURL /\ validateDeviceURL(c.DeviceURL) # nil
         THEN Error("config", "", "", "invalid device URL")
         ELSE nil

CredErr(cause) == Error("credentials", "", "", cause)

\* runSSO, step 1: on error of getCredentials runSSO returns at once
CredentialsDone(c, e, tr) ==
    /\ config' = c
    /\ trace' = trace \o tr
    /\ IF e = nil
       THEN /\ pc' = "deviceURL"
            /\ result' = result
       ELSE /\ pc' = "exit"
            /\ result' = e
    /\ UNCHANGED <<build, flags, env, step, deviceURL, totpCode, err, ret, exitCode, elapsed>>

\* getCredentials of src/config.go
getCredentials ==
    /\ pc = "getCredentials"
    /\ build = "config.go"
    /\ LET c1 == FromEnv(config, env)
       IN  IF c1.DeviceURL = NoURL /\ hasIncompleteCredentials(c1)
           THEN CredentialsDone(c1, CredErr("interactive prompts work only with --device-url flag"), <<>>)
           ELSE \E ansU \in Answers, ansP \in Answers :
                LET needU == c1.Username = ""
                    u == promptForInput(ansU, FALSE)
                    c2 == IF needU /\ u.ok THEN [c1 EXCEPT !.Username = u.val] ELSE c1
                    trU == IF needU THEN <<Prompt("username", ansU, u.ok)>> ELSE <<>>
                    needP == c2.Password = ""
                    p == promptForInput(ansP, TRUE)
                    c3 == IF needP /\ p.ok THEN [c2 EXCEPT !.Password = p.val] ELSE c2
                    trP == IF needP THEN <<Prompt("password", ansP, p.ok)>> ELSE <<>>
                IN  IF needU /\ ~u.ok
                    THEN CredentialsDone(c1, CredErr("input"), trU)
                    ELSE IF needP /\ ~p.ok
                         THEN CredentialsDone(c2, CredErr("input"), trU \o trP)
                         ELSE CredentialsDone(c3, nil, trU \o trP)

\* getCredentials of src/main.go
getCredentialsMain ==
    /\ pc = "getCredentials"
    /\ build = "main.go"
    /\ \E ansU \in Answers, ansP \in Answers :
        LET needU == config.Username = "" /\ env.AWSSSOLOGIN_USERNAME = ""
            u == promptForInputMain(ansU, FALSE)
            c1 == IF config.Username # "" THEN config
                  ELSE IF env.AWSSSOLOGIN_USERNAME # ""
                       THEN [config EXCEPT !.Username = env.AWSSSOLOGIN_USERNAME]
                       ELSE [config EXCEPT !.Username = u.val]
            trU == IF needU THEN <<Prompt("username", ansU, u.ok)>> ELSE <<>>
            needP == c1.Password = "" /\ env.AWSSSOLOGIN_PASSWORD = ""
            p == promptForInputMain(ansP, TRUE)
            c2 == IF c1.Password # "" THEN c1
                  ELSE IF env.AWSSSOLOGIN_PASSWORD # ""
                       THEN [c1 EXCEPT !.Password = env.AWSSSOLOGIN_PASSWORD]
                       ELSE [c1 EXCEPT !.Password = p.val]
            trP == IF needP THEN <<Prompt("password", ansP, p.ok)>> ELSE <<>>
            c3 == IF c2.TOTPSecret # "" THEN c2
                  ELSE IF env.AWSSSOLOGIN_TOTP_SECRET # ""
                       THEN [c2 EXCEPT !.TOTPSecret = env.AWSSSOLOGIN_TOTP_SECRET]
                       ELSE [c2 EXCEPT !.InteractiveTOTP = TRUE]
        IN  IF needU /\ ~u.ok
            THEN CredentialsDone(config, CredErr("input"), trU)
            ELSE IF needP /\ ~p.ok
                 THEN CredentialsDone(c1, CredErr("input"), trU \o trP)
                 ELSE CredentialsDone(c3, nil, trU \o trP)

-----------------------------------------------------------------------------
(* Device URL *)

Wrap(kind, e) == Error(kind, e.desc, e.xpath, e.cause)

Scanned == { i \in 1..Len(trace) : trace[i].op = "Scan" }

\* runSSO, step 2: the flag if it is set, standard input otherwise
runSSO_deviceURL ==
    /\ pc = "deviceURL"
    /\ IF config.DeviceURL # NoURL
       THEN /\ deviceURL' = config.DeviceURL
            /\ pc' = "Launch"
       ELSE /\ deviceURL' = deviceURL
            /\ pc' = "Scan"
    /\ UNCHANGED <<build, flags, env, config, step, totpCode, err, ret, result, exitCode,
                   trace, elapsed>>

readDeviceURLFromStdin_lineLast ==
    /\ pc = "Scan"
    /\ Cardinality(Scanned) < MaxLines
    /\ \E line \in StdinLines :
        LET match == FindString(line)
        IN  /\ trace' = Append(trace, Call("Scan", "", "", line, TRUE))
            /\ deviceURL' = IF match # <<>> THEN match ELSE deviceURL
            /\ pc' = IF match # <<>> /\ Cardinality(Scanned) + 1 = MaxLines
                     THEN "Launch" ELSE "Scan"
    /\ UNCHANGED <<build, flags, env, config, step, totpCode, err, ret, result, exitCode,
                   elapsed>>

\* readDeviceURLFromStdin: one turn of the scanner loop on the next line
readDeviceURLFromStdin_line ==
    /\ pc = "Scan"
    /\ Cardinality(Scanned) < MaxLines
    /\ \E line \in StdinLines :
        LET match == FindString(line)
        IN  /\ trace' = Append(trace, Call("Scan", "", "", line, TRUE))
            /\ IF match # <<>>
               THEN /\ deviceURL' = match
                    /\ pc' = "Launch"
               ELSE /\ deviceURL' = deviceURL
                    /\ pc' = "Scan"
    /\ UNCHANGED <<build, flags, env, config, step, totpCode, err, ret, result, exitCode,
                   elapsed>>

readDeviceURLFromStdin_endIgnored ==
    /\ pc = "Scan"
    /\ \E cause \in {"error reading from stdin", "device URL not found in AWS SSO output"} :
        /\ trace' = Append(trace, Call("ScanEnd", "", cause, NoURL, FALSE))
        /\ result' = result
    /\ pc' = "Launch"
    /\ UNCHANGED <<build, flags, env, config, step, deviceURL, totpCode, err, ret, exitCode,
                   elapsed>>

\* readDeviceURLFromStdin: the input ended (or could not be read) before a
\* match; runSSO returns the error
readDeviceURLFromStdin_end ==
    /\ pc = "Scan"
    /\ \E cause \in {"error reading from stdin", "device URL not found in AWS SSO output"} :
        /\ trace' = Append(trace, Call("ScanEnd", "", cause, NoURL, FALSE))
        /\ result' = Error("stdin", "", "", cause)
    /\ pc' = "exit"
    /\ UNCHANGED <<build, flags, env, config, step, deviceURL, totpCode, err, ret, exitCode,
                   elapsed>>

-----------------------------------------------------------------------------
(* Browser automation: automateBrowserLogin, one action per collaborator   *)
(* call, in the order of the function body.                                *)

\* the page steps of automateBrowserLogin, in the order of its body
Steps ==
    << [kind |-> "fill", xpath |-> XPathUsername, desc |-> "username field"],
       [kind |-> "fill", xpath |-> XPathPassword, desc |-> "password field"],
       [kind |-> "fill", xpath |-> XPathTOTP, desc |-> "TOTP field"],
       [kind |-> "click", xpath |-> XPathAllow1, desc |-> "first Allow button"],
       [kind |-> "click", xpath |-> XPathAllow2, desc |-> "second Allow button"],
       [kind |-> "verify", xpath |-> XPathSuccess, desc |-> "success message"] >>

StepUsername == 1
StepPassword == 2
StepTOTP == 3
StepSuccess == 6

FieldValueSecret(k) ==
    CASE k = StepUsername -> config.Username
      [] k = StepPassword -> config.Password
      [] OTHER -> config.TOTPSecret

\* the value automateBrowserLogin passes to fillAndSubmitField at step k
FieldValue(k) ==
    CASE k = StepUsername -> config.Username
      [] k = StepPassword -> config.Password
      [] OTHER -> totpCode

\* page.Timeout(timeout).ElementX: the element is found if it shows up
\* before the timeout has elapsed; with a timeout of zero or less the
\* deadline has passed when the lookup starts
FoundWithin(delay, timeout) == delay < timeout

\* how long after the start of a lookup the element shows up: at once,
\* just before or just at the longest timeout, or later still
Delays == {0, MaxTimeout - 1, MaxTimeout, MaxDelay}

TimeoutWholeRun(timeout) == timeout - elapsed

\* page.Timeout(timeout): the time the context made for one lookup allows it
Timeout(timeout) == timeout

\* how long ElementX blocks: until the element is there or the context expires
Blocked(delay, budget) ==
    IF FoundWithin(delay, budget) THEN delay ELSE IF budget > 0 THEN budget ELSE 0

BrowserVars == <<build, flags, env, config, deviceURL, result, exitCode>>

FailRetryOnce(e, r) ==
    IF step >= 1 /\ \A i \in DOMAIN trace : trace[i].ok
    THEN /\ pc' = "findElement"
         /\ UNCHANGED <<step, totpCode, err, ret>>
    ELSE /\ err' = e
         /\ ret' = r
         /\ pc' = "defer"
         /\ UNCHANGED <<step, totpCode>>

FailCarryOn(e, r) ==
    /\ err' = e
    /\ ret' = r
    /\ pc' = IF pc = "findElement" /\ Steps[step].kind = "click" THEN "Click" ELSE "defer"
    /\ UNCHANGED <<step, totpCode>>

FailNoDefer(e, r) ==
    /\ err' = e
    /\ ret' = r
    /\ pc' = "return"
    /\ UNCHANGED <<step, totpCode>>

\* a return with an error after the deferred function was registered:
\* e is what the variable err holds, r is the value returned
Fail(e, r) ==
    /\ err' = e
    /\ ret' = r
    /\ pc' = "defer"
    /\ UNCHANGED <<step, totpCode>>

AfterStepEarlyTOTP(k) ==
    /\ step' = k + 1
    /\ pc' = CASE k = StepUsername -> "getTOTPCode"
               [] k = 5 -> "checkSuccessMessage"
               [] OTHER -> "findElement"
    /\ err' = nil
    /\ UNCHANGED <<totpCode, ret>>

\* the statement that follows step k of automateBrowserLogin
AfterStep(k) ==
    /\ step' = k + 1
    /\ pc' = CASE k = StepPassword -> "getTOTPCode"
               [] k = 5 -> "checkSuccessMessage"
               [] OTHER -> "findElement"
    /\ err' = nil
    /\ UNCHANGED <<totpCode, ret>>

\* launcher.New().Headless(!config.ShowBrowser).Launch()
Launch ==
    /\ pc = "Launch"
    /\ \E ok \in BOOLEAN :
        /\ trace' = Append(trace, Call("Launch", "",
                        IF config.ShowBrowser THEN "visible" ELSE "headless", NoURL, ok))
        /\ IF ok
           THEN /\ pc' = "Connect"
                /\ UNCHANGED <<err, ret>>
           ELSE /\ err' = Error("cause", "", "", "launch")
                /\ ret' = Error("launch", "", "", "failed to launch browser")
                /\ pc' = "return"
    /\ UNCHANGED <<step, totpCode>>
    /\ UNCHANGED elapsed
    /\ UNCHANGED BrowserVars

\* rod.New().ControlURL(url).Connect(); on success the deferred close is
\* registered
Connect ==
    /\ pc = "Connect"
    /\ \E ok \in BOOLEAN :
        /\ trace' = Append(trace, Call("Connect", "", "", NoURL, ok))
        /\ IF ok
           THEN /\ pc' = "Page"
                /\ UNCHANGED ret
           ELSE /\ ret' = Error("connect", "", "", "failed to connect to browser")
                /\ pc' = "return"
    /\ UNCHANGED <<step, totpCode, err>>
    /\ UNCHANGED elapsed
    /\ UNCHANGED BrowserVars

PageTwice ==
    /\ pc = "Page"
    /\ \E ok \in BOOLEAN :
        /\ trace' = trace \o <<Call("Page", "", "", NoURL, TRUE),
                                Call("Page", "", "", deviceURL, ok)>>
        /\ IF ok
           THEN /\ pc' = "findElement"
                /\ step' = StepUsername
                /\ UNCHANGED <<totpCode, err, ret>>
           ELSE /\ Fail(Error("cause", "", "", "page"),
                        Error("page", "", "", "failed to open page"))
    /\ UNCHANGED elapsed
    /\ UNCHANGED BrowserVars

\* browser.Page(proto.TargetCreateTarget{URL: deviceURL})
Page ==
    /\ pc = "Page"
    /\ \E ok \in BOOLEAN :
        /\ trace' = Append(trace, Call("Page", "", "", deviceURL, ok))
        /\ IF ok
           THEN /\ pc' = "findElement"
                /\ step' = StepUsername
                /\ UNCHANGED <<totpCode, err, ret>>
           ELSE /\ Fail(Error("cause", "", "", "page"),
                        Error("page", "", "", "failed to open page"))
    /\ UNCHANGED elapsed
    /\ UNCHANGED BrowserVars

\* findElement, called by fillAndSubmitField and by clickButton
findElement ==
    /\ pc = "findElement"
    /\ \E delay \in Delays :
        /\ trace' = Append(trace, Call("ElementX", Steps[step].xpath, "", NoURL,
                                       FoundWithin(delay, Timeout(config.TimeoutSeconds))))
        /\ elapsed' = elapsed + Blocked(delay, Timeout(config.TimeoutSeconds))
        /\ IF FoundWithin(delay, Timeout(config.TimeoutSeconds))
           THEN /\ pc' = IF Steps[step].kind = "fill" THEN "Input" ELSE "Click"
                /\ UNCHANGED <<step, totpCode, err, ret>>
           ELSE LET e == Error("not found", Steps[step].desc, Steps[step].xpath,
                               "context deadline exceeded")
                IN  Fail(e, e)
    /\ UNCHANGED BrowserVars

InputUnchecked ==
    /\ pc = "Input"
    /\ \E ok \in BOOLEAN :
        trace' = Append(trace, Call("Input", Steps[step].xpath, FieldValue(step), NoURL, ok))
    /\ pc' = "Type"
    /\ UNCHANGED <<step, totpCode, err, ret>>
    /\ UNCHANGED elapsed
    /\ UNCHANGED BrowserVars

\* fillAndSubmitField: field.Input(value)
Input ==
    /\ pc = "Input"
    /\ \E ok \in BOOLEAN :
        /\ trace' = Append(trace, Call("Input", Steps[step].xpath, FieldValue(step), NoURL, ok))
        /\ IF ok
           THEN /\ pc' = "Type"
                /\ UNCHANGED <<step, totpCode, err, ret>>
           ELSE LET e == Error("failed to input", Steps[step].desc, "", "input")
                IN  Fail(e, e)
    /\ UNCHANGED elapsed
    /\ UNCHANGED BrowserVars

\* fillAndSubmitField: field.Type(input.Enter)
Type ==
    /\ pc = "Type"
    /\ \E ok \in BOOLEAN :
        /\ trace' = Append(trace, Call("Type", Steps[step].xpath, "Enter", NoURL, ok))
        /\ IF ok
           THEN AfterStep(step)
           ELSE LET e == Error("failed to submit", Steps[step].desc, "", "type")
                IN  Fail(e, e)
    /\ UNCHANGED elapsed
    /\ UNCHANGED BrowserVars

\* clickButton: button.Click(proto.InputMouseButtonLeft, 1)
Click ==
    /\ pc = "Click"
    /\ \E ok \in BOOLEAN :
        /\ trace' = Append(trace, Call("Click", Steps[step].xpath, "", NoURL, ok))
        /\ IF ok
           THEN AfterStep(step)
           ELSE LET e == Error("failed to click", Steps[step].desc, "", "click")
                IN  Fail(e, e)
    /\ UNCHANGED elapsed
    /\ UNCHANGED BrowserVars

getTOTPCodeStored ==
    /\ pc = "getTOTPCode"
    /\ \E ans \in Answers :
        LET r == IF config.InteractiveTOTP
                 THEN IF build = "config.go" THEN promptForInput(ans, FALSE)
                                             ELSE promptForInputMain(ans, FALSE)
                 ELSE GenerateCode(config.TOTPSecret)
            call == IF config.InteractiveTOTP
                    THEN Prompt("TOTP code", ans, r.ok)
                    ELSE Call("GenerateCode", "", config.TOTPSecret, NoURL, r.ok)
        IN  /\ trace' = Append(trace, call)
            /\ config' = [config EXCEPT !.TwoFA = r.val]
            /\ IF r.ok
               THEN /\ totpCode' = r.val
                    /\ err' = nil
                    /\ pc' = "findElement"
                    /\ UNCHANGED <<step, ret>>
               ELSE Fail(Error("cause", "", "", "totp"),
                         Error("totp", "", "", "failed to get TOTP code"))
    /\ UNCHANGED <<elapsed, build, flags, env, deviceURL, result, exitCode>>

\* getTOTPCode, called between the password step and the TOTP step
getTOTPCode ==
    /\ pc = "getTOTPCode"
    /\ \E ans \in Answers :
        LET r == IF config.InteractiveTOTP
                 THEN IF build = "config.go" THEN promptForInput(ans, FALSE)
                                             ELSE promptForInputMain(ans, FALSE)
                 ELSE GenerateCode(config.TOTPSecret)
            call == IF config.InteractiveTOTP
                    THEN Prompt("TOTP code", ans, r.ok)
                    ELSE Call("GenerateCode", "", config.TOTPSecret, NoURL, r.ok)
        IN  /\ trace' = Append(trace, call)
            /\ IF r.ok
               THEN /\ totpCode' = r.val
                    /\ err' = nil
                    /\ pc' = "findElement"
                    /\ UNCHANGED <<step, ret>>
               ELSE Fail(Error("cause", "", "", "totp"),
                         Error("totp", "", "", "failed to get TOTP code"))
    /\ UNCHANGED elapsed
    /\ UNCHANGED BrowserVars

checkSuccessMessageLenient ==
    /\ pc = "checkSuccessMessage"
    /\ \E delay \in Delays :
        /\ trace' = Append(trace, Call("ElementX", XPathSuccess, "", NoURL,
                                       FoundWithin(delay, Timeout(config.TimeoutSeconds))))
        /\ elapsed' = elapsed + Blocked(delay, Timeout(config.TimeoutSeconds))
    /\ err' = nil
    /\ ret' = nil
    /\ pc' = "defer"
    /\ UNCHANGED <<step, totpCode>>
    /\ UNCHANGED BrowserVars

\* checkSuccessMessage, then the final return nil
checkSuccessMessage ==
    /\ pc = "checkSuccessMessage"
    /\ \E delay \in Delays :
        /\ trace' = Append(trace, Call("ElementX", XPathSuccess, "", NoURL,
                                       FoundWithin(delay, Timeout(config.TimeoutSeconds))))
        /\ elapsed' = elapsed + Blocked(delay, Timeout(config.TimeoutSeconds))
        /\ IF FoundWithin(delay, Timeout(config.TimeoutSeconds))
           THEN /\ err' = nil
                /\ ret' = nil
                /\ pc' = "defer"
                /\ UNCHANGED <<step, totpCode>>
           ELSE LET e == Error("not found", Steps[StepSuccess].desc, XPathSuccess,
                               "context deadline exceeded")
                IN  Fail(e, e)
    /\ UNCHANGED BrowserVars

DelaysCloseOnFailure(c, e) == e # nil

\* the deferred function decides to wait before closing
DelaysClose(c, e) == c.ShowBrowser /\ e # nil

DeferredCloseOverrides ==
    /\ pc = "defer"
    /\ \E closeOk \in BOOLEAN :
        LET sleep == IF DelaysClose(config, err)
                     THEN <<Call("Sleep", "", "BrowserCloseDelay", NoURL, TRUE)>>
                     ELSE <<>>
            close == Call("Close", "", "", NoURL, closeOk)
        IN  /\ trace' = trace \o sleep \o <<close>>
            /\ ret' = IF closeOk THEN ret
                      ELSE Error("close", "", "", "failed to close browser")
    /\ elapsed' = elapsed + (IF DelaysClose(config, err) THEN BrowserCloseDelay ELSE 0)
    /\ pc' = "return"
    /\ UNCHANGED <<step, totpCode, err>>
    /\ UNCHANGED BrowserVars

\* the deferred function of automateBrowserLogin
DeferredClose ==
    /\ pc = "defer"
    /\ \E closeOk \in BOOLEAN :
        LET sleep == IF DelaysClose(config, err)
                     THEN <<Call("Sleep", "", "BrowserCloseDelay", NoURL, TRUE)>>
                     ELSE <<>>
            close == Call("Close", "", "", NoURL, closeOk)
        IN  trace' = trace \o sleep \o <<close>>
    /\ elapsed' = elapsed + (IF DelaysClose(config, err) THEN BrowserCloseDelay ELSE 0)
    /\ pc' = "return"
    /\ UNCHANGED <<step, totpCode, err, ret>>
    /\ UNCHANGED BrowserVars

\* runSSO, step 3: the value automateBrowserLogin returned
runSSO_return ==
    /\ pc = "return"
    /\ result' = IF ret # nil THEN Wrap("browser automation failed", ret) ELSE nil
    /\ pc' = "exit"
    /\ UNCHANGED <<build, flags, env, config, step, deviceURL, totpCode, err, ret,
                   exitCode, trace, elapsed>>

ExitCodeOfLogged(e) == 0

\* main: rootCmd.Execute() returned
ExitCodeOf(e) == IF e # nil THEN 1 ELSE 0

main_exit ==
    /\ pc = "exit"
    /\ exitCode' = ExitCodeOf(result)
    /\ pc' = "done"
    /\ UNCHANGED <<build, flags, env, config, step, deviceURL, totpCode, err, ret,
                   result, trace, elapsed>>

Next ==
    \/ getCredentials
    \/ getCredentialsMain
    \/ runSSO_deviceURL
    \/ readDeviceURLFromStdin_line
    \/ readDeviceURLFromStdin_end
    \/ Launch
    \/ Connect
    \/ Page
    \/ findElement
    \/ Input
    \/ Type
    \/ Click
    \/ getTOTPCode
    \/ checkSuccessMessage
    \/ DeferredClose
    \/ runSSO_return
    \/ main_exit

Spec == Init /\ [][Next]_vars

TypeOK ==
    /\ pc \in {"getCredentials", "deviceURL", "Scan", "Launch", "Connect", "Page",
               "findElement", "Input", "Type", "Click", "getTOTPCode",
               "checkSuccessMessage", "defer", "return", "exit", "done"}
    /\ step \in 0..6
    /\ exitCode \in {-1, 0, 1}

-----------------------------------------------------------------------------
(* Reading the recorded calls *)

Calls == DOMAIN trace

PageOps == {"ElementX", "Input", "Type", "Click"}
BrowserOps == PageOps \cup {"Launch", "Connect", "Page", "Close"}

PageCalls == { i \in Calls : trace[i].op \in PageOps }
BrowserCalls == { i \in Calls : trace[i].op \in BrowserOps }
Closes == { i \in Calls : trace[i].op = "Close" }
Prompts == { i \in Calls : trace[i].op = "prompt" }

\* the step a page call belongs to, by its selector
StepOfXPath ==
    [x \in {Steps[k].xpath : k \in 1..Len(Steps)} |->
        CHOOSE k \in 1..Len(Steps) : Steps[k].xpath = x]

StepOf(i) == StepOfXPath[trace[i].xpath]

\* the call op on selector xpath was made and succeeded
Ok(op, xpath) ==
    \E i \in Calls : trace[i].op = op /\ trace[i].xpath = xpath /\ trace[i].ok

\* the call op on selector xpath was made and failed
Failed(op, xpath) ==
    \E i \in Calls : trace[i].op = op /\ trace[i].xpath = xpath /\ ~trace[i].ok

Prompted(what) == \E i \in Prompts : trace[i].val = what

\* automateBrowserLogin has returned to runSSO
Returned == pc \in {"return", "exit", "done"} /\ (\E i \in Calls : trace[i].op = "Launch")

\* the one-time code was acquired: generated from the secret, or asked for
Acquisitions ==
    { i \in Calls : \/ trace[i].op = "GenerateCode"
                    \/ trace[i].op = "prompt" /\ trace[i].val = "TOTP code" }

TOTPInputs == { i \in Calls : trace[i].op = "Input" /\ trace[i].xpath = XPathTOTP }

-----------------------------------------------------------------------------
(* Claims *)

\* C1: the page calls of a run are made in the order of the steps (username,
\* password, one-time code, first Allow, second Allow, success check), no
\* step is entered before the one before it was, and once a page call has
\* failed no further page call is made in that run.
C1_StepsInOrderStopAtFailure ==
    LET IsPageCall(c) == c.op \in PageOps
        calls == SelectSeq(trace, IsPageCall)
        n == Len(calls)
    IN  /\ \A i \in 1..(n - 1) :
              /\ calls[i].ok
              /\ StepOfXPath[calls[i].xpath] <= StepOfXPath[calls[i + 1].xpath]
        /\ \A j \in 1..n :
              \/ StepOfXPath[calls[j].xpath] = StepUsername
              \/ \E i \in 1..(j - 1) :
                    StepOfXPath[calls[i].xpath] = StepOfXPath[calls[j].xpath] - 1

\* C1 witness: the run is over, the lookup of the one-time-code field failed
\* after the username and password steps were made
C1_Witness ==
    /\ pc = "done"
    /\ Ok("Type", XPathUsername)
    /\ Ok("Type", XPathPassword)
    /\ Failed("ElementX", XPathTOTP)

\* C2: in a run that reached the page steps, Close is called exactly once by
\* the time automateBrowserLogin has returned, never more than once, and
\* after every page call of the run.
C2_ClosedExactlyOnce ==
    Ok("Page", "") =>
        /\ Cardinality(Closes) <= 1
        /\ pc \in {"return", "exit", "done"} => Cardinality(Closes) = 1
        /\ \A c \in Closes : \A i \in PageCalls : i < c

\* C2 witness: the second Allow button was not found, the function has
\* returned and the session was closed once
C2_Witness ==
    /\ pc = "return"
    /\ Failed("ElementX", XPathAllow2)
    /\ Cardinality(Closes) = 1

AllStepsSucceeded ==
    /\ Ok("Launch", "") /\ Ok("Connect", "") /\ Ok("Page", "")
    /\ \A k \in {StepUsername, StepPassword, StepTOTP} :
          /\ Ok("ElementX", Steps[k].xpath)
          /\ Ok("Input", Steps[k].xpath)
          /\ Ok("Type", Steps[k].xpath)
    /\ \A x \in {XPathAllow1, XPathAllow2} : Ok("ElementX", x) /\ Ok("Click", x)
    /\ Ok("ElementX", XPathSuccess)

\* C3: automateBrowserLogin returns nil exactly when launch, connect, page
\* open, the three fill-and-submit steps, both clicks and the lookup of the
\* success indicator succeeded; consent given but no success indicator is a
\* failure.
C3_SuccessIffAllSucceeded ==
    Returned =>
        /\ ret = nil <=> AllStepsSucceeded
        /\ Failed("ElementX", XPathSuccess) => ret # nil

\* C3 witness: both clicks succeeded, the success indicator was not found
\* and the run returned an error
C3_Witness ==
    /\ pc = "done"
    /\ Ok("Click", XPathAllow1)
    /\ Ok("Click", XPathAllow2)
    /\ Failed("ElementX", XPathSuccess)
    /\ ret # nil

\* C4: the one-time code is acquired only after the username and password
\* steps both succeeded and before the value of the one-time-code field is
\* set, which is never set without it; nothing acquires it while the
\* credentials and the device URL are being resolved.
C4_CodeAcquiredBetweenPasswordAndTOTP ==
    /\ \A a \in Acquisitions :
          /\ \E i \in Calls : i < a /\ trace[i].op = "Type"
                              /\ trace[i].xpath = XPathUsername /\ trace[i].ok
          /\ \E i \in Calls : i < a /\ trace[i].op = "Type"
                              /\ trace[i].xpath = XPathPassword /\ trace[i].ok
          /\ \A j \in TOTPInputs : a < j
    /\ \A j \in TOTPInputs : \E a \in Acquisitions : a < j
    /\ pc \in {"getCredentials", "deviceURL", "Scan", "Launch"} => Acquisitions = {}

\* C4 witness: the code was acquired and then set into the field
C4_Witness ==
    \E a \in Acquisitions : \E j \in TOTPInputs : a < j /\ trace[a].ok

\* C5: with a timeout of zero or less the run makes no browser call and
\* ends with an error.
C5_NonPositiveTimeoutRejected ==
    (flags.TimeoutSeconds <= 0 /\ ValidateConfig(flags) # nil) =>
        /\ BrowserCalls = {}
        /\ pc = "done" => result # nil

\* C6: with a --device-url that is not a device URL the run makes no browser
\* call and ends with an error.
C6_MalformedDeviceURLRejected ==
    (flags.DeviceURL # NoURL /\ validateDeviceURL(flags.DeviceURL) # nil) =>
        /\ BrowserCalls = {}
        /\ pc = "done" => result # nil

\* the device URL pattern of the interface: any host
AnyHostRegex(s, i) ==
    /\ i + 3 <= Len(s)
    /\ s[i] = Scheme
    /\ s[i + 1] \in HostNames
    /\ s[i + 2] = PathPart
    /\ CodeRun(s, i + 3) >= 1

AnyHostFind(s) ==
    LET starts == { i \in 1..Len(s) : AnyHostRegex(s, i) }
    IN  IF starts = {} THEN <<>>
        ELSE LET i == CHOOSE j \in starts : \A k \in starts : j <= k
             IN  SubSeq(s, i, i + 2 + CodeRun(s, i + 3))

Scans == { i \in Calls : trace[i].op = "Scan" }
URLScans == { i \in Scans : AnyHostFind(trace[i].url) # <<>> }

\* C7: once a line holding a device URL, of whatever host, has been read
\* from standard input, readDeviceURLFromStdin has returned the URL of the
\* first such line, unchanged.
C7_AnyHostExtracted ==
    \A i \in URLScans :
        (\A j \in URLScans : i <= j) => deviceURL = AnyHostFind(trace[i].url)

EnvOf(f) ==
    CASE f = "Username" -> env.AWSSSOLOGIN_USERNAME
      [] f = "Password" -> env.AWSSSOLOGIN_PASSWORD
      [] f = "TOTPSecret" -> env.AWSSSOLOGIN_TOTP_SECRET

PromptOf(f) ==
    CASE f = "Username" -> "username"
      [] f = "Password" -> "password"
      [] f = "TOTPSecret" -> "TOTP code"

CredentialsResolved == pc # "getCredentials" /\ result.kind # "credentials"

\* C9: for username, password and TOTP secret, a flag value is never
\* replaced; once getCredentials has returned without error an environment
\* value is in use when the flag was empty; the prompt is issued only when
\* flag and environment are both empty.
C9_FlagThenEnvThenPrompt ==
    \A f \in {"Username", "Password", "TOTPSecret"} :
        /\ flags[f] # "" => config[f] = flags[f]
        /\ (CredentialsResolved /\ flags[f] = "" /\ EnvOf(f) # "") => config[f] = EnvOf(f)
        /\ Prompted(PromptOf(f)) => (flags[f] = "" /\ EnvOf(f) = "")

\* C9 witness: getCredentials has returned without error; the username
\* was given by flag and by environment and the flag value is in use
C9_Witness ==
    /\ CredentialsResolved
    /\ flags.Username # "" /\ env.AWSSSOLOGIN_USERNAME # ""
    /\ config.Username = flags.Username
    /\ pc = "done"

LiteralCodeSupplied ==
    /\ env.AWSSSOLOGIN_2FA # ""
    /\ flags.TOTPSecret = ""
    /\ env.AWSSSOLOGIN_TOTP_SECRET = ""

\* C10: when a literal code is supplied and no secret, the value set into
\* the one-time-code field is that code, nothing is generated from a secret
\* and no code is asked for.
C10_LiteralCodeSubmitted ==
    LiteralCodeSupplied =>
        /\ \A j \in TOTPInputs : trace[j].val = env.AWSSSOLOGIN_2FA
        /\ Acquisitions = {}

SecretConfigured == flags.TOTPSecret # "" \/ env.AWSSSOLOGIN_TOTP_SECRET # ""

Sleeps == { i \in Calls : trace[i].op = "Sleep" }

\* C12: the session is closed right after a wait of BrowserCloseDelay when
\* the browser is visible and automateBrowserLogin returns an error, and
\* without any wait when the browser is headless or the run succeeded; the
\* wait is made for nothing but the close.
C12_CloseDelayedIffVisibleAndFailed ==
    /\ \A c \in Closes :
          /\ (c - 1) \in Sleeps <=> (config.ShowBrowser /\ ret # nil)
          /\ elapsed >= BrowserCloseDelay <=> (config.ShowBrowser /\ ret # nil)
    /\ \A s \in Sleeps :
          /\ trace[s].val = "BrowserCloseDelay"
          /\ (s + 1) \in Closes
    /\ Closes = {} => elapsed < BrowserCloseDelay

\* C12 witness: the browser is visible, the password field was not found,
\* and the session was closed after the wait
C12_Witness ==
    /\ pc = "return"
    /\ config.ShowBrowser
    /\ Failed("ElementX", XPathPassword)
    /\ ret # nil
    /\ \E c \in Closes : (c - 1) \in Sleeps
    /\ elapsed >= BrowserCloseDelay

\* C13: once the browser was launched and automateBrowserLogin has
\* returned, whatever lifecycle call failed, the browser was closed.
C13_LaunchedBrowserCleanedUp ==
    (Returned /\ Ok("Launch", "")) => Closes # {}

\* C14: when a page call has failed and automateBrowserLogin has returned,
\* the error returned carries the description of the step of that call,
\* the selector of that call, and the underlying cause.
C14_StepFailureCarriesSelector ==
    Returned =>
        \A i \in PageCalls :
            ~trace[i].ok => /\ ret.desc = Steps[StepOf(i)].desc
                            /\ ret.xpath = trace[i].xpath
                            /\ ret.cause # ""

\* the kind of error automateBrowserLogin returns when a call of op fails
ErrorKindOf(op) ==
    CASE op = "Page" -> "page"
      [] op = "ElementX" -> "not found"
      [] op = "Input" -> "failed to input"
      [] op = "Type" -> "failed to submit"
      [] op = "Click" -> "failed to click"
      [] OTHER -> "totp"

\* C15: once the session was closed and automateBrowserLogin has returned,
\* whether Close succeeded or failed, the value returned is success when
\* no call before the Close failed, and otherwise it is the error of the
\* call that failed: its kind and, for a page call, its step's description.
C15_CloseFailureKeepsVerdict ==
    Returned =>
        \A c \in Closes :
            LET failed == { i \in 1..(c - 1) : ~trace[i].ok }
            IN  /\ ret = nil <=> failed = {}
                /\ \A i \in failed :
                      /\ ret.kind = ErrorKindOf(trace[i].op)
                      /\ i \in PageCalls => ret.desc = Steps[StepOf(i)].desc

\* C15 witness: the click on the first Allow button failed, Close failed
\* too, and the error returned is the one of the click
C15_Witness ==
    /\ pc = "return"
    /\ Failed("Click", XPathAllow1)
    /\ \E c \in Closes : ~trace[c].ok
    /\ ret.kind = "failed to click"

\* C16: when the run is over, every line that was read from standard
\* input has been written, unchanged, to the output of the program.
C16_EveryLineForwarded ==
    pc = "done" =>
        \A i \in Scans :
            \E j \in Calls : /\ i < j
                             /\ trace[j].op = "Println"
                             /\ trace[j].url = trace[i].url

ScanEnds == { i \in Calls : trace[i].op = "ScanEnd" }

\* C17: when standard input has ended before a line matched, no
\* --device-url was given, no line read matched, no browser call was made,
\* the run is over or ending with the error of readDeviceURLFromStdin, and
\* the exit code is 1; without --device-url a browser call is made only
\* after a line that matched.
C17_NoURLNoLaunch ==
    /\ ScanEnds # {} =>
          /\ flags.DeviceURL = NoURL
          /\ \A s \in Scans : FindString(trace[s].url) = <<>>
          /\ BrowserCalls = {}
          /\ pc \in {"exit", "done"}
          /\ result.kind = "stdin"
          /\ pc = "done" => exitCode = 1
    /\ (flags.DeviceURL = NoURL /\ BrowserCalls # {}) =>
          \E s \in Scans : FindString(trace[s].url) # <<>>

\* C17 witness: a line without a matching URL was read, the input ended,
\* and the run is over with the error and no browser call
C17_Witness ==
    /\ pc = "done"
    /\ Scans # {}
    /\ \E i \in ScanEnds : trace[i].val = "device URL not found in AWS SSO output"
    /\ BrowserCalls = {}
    /\ exitCode = 1

\* the call appended by the step, when the step appends exactly one call
Appended == IF Len(trace') = Len(trace) + 1 THEN trace'[Len(trace')] ELSE Call("", "", "", NoURL, TRUE)

\* C18: every element lookup has the whole configured timeout to itself,
\* whatever time the run has spent before it: a lookup that finds its
\* element took less than the timeout and the run goes on; a lookup that
\* fails took exactly the timeout (no time when it is zero or less) and
\* the run fails with the not-found error of that lookup's step.
C18_EachLookupHasFullTimeout ==
    [][Appended.op = "ElementX" =>
          LET took == elapsed' - elapsed
              timeout == config.TimeoutSeconds
          IN  /\ Appended.ok => /\ took < timeout
                                /\ ret' = ret
                                /\ pc' # "defer" \/ Appended.xpath = XPathSuccess
              /\ ~Appended.ok => /\ took = IF timeout > 0 THEN timeout ELSE 0
                                 /\ ret'.kind = "not found"
                                 /\ ret'.xpath = Appended.xpath
                                 /\ ret'.desc = Steps[StepOfXPath[Appended.xpath]].desc
                                 /\ pc' = "defer"]_vars

\* C18 witness: the lookups before have taken more than the timeout
\* together, and the first Allow button was still found
C18_Witness ==
    /\ pc = "Click"
    /\ step = 4
    /\ config.TimeoutSeconds > 0
    /\ elapsed > config.TimeoutSeconds
    /\ trace[Len(trace)].op = "ElementX" /\ trace[Len(trace)].ok

\* C19: the exit code is set when the run is over, and only then; it is 0
\* iff runSSO returned nil, and 1 otherwise; runSSO returns an error when
\* getCredentials, readDeviceURLFromStdin or automateBrowserLogin returned
\* one, and nil only when automateBrowserLogin was called and returned nil.
C19_ExitZeroIffSuccess ==
    /\ pc # "done" <=> exitCode = -1
    /\ pc = "done" =>
          /\ exitCode = 0 <=> result = nil
          /\ exitCode \in {0, 1}
          /\ result = nil <=> (Returned /\ ret = nil)
          /\ ScanEnds # {} => result # nil
          /\ (\E i \in Prompts : ~trace[i].ok /\ trace[i].val # "TOTP code") => result # nil

\* C19 witness: the run is over, automateBrowserLogin returned nil and the
\* exit code is 0
C19_Witness ==
    /\ pc = "done"
    /\ Returned
    /\ ret = nil
    /\ exitCode = 0

\* C20: no element lookup is made between the generation of the one-time
\* code from the secret and the call that sets it into the one-time-code
\* field.
C20_NoLookupAfterGeneration ==
    \A a \in Acquisitions : \A j \in TOTPInputs :
        (trace[a].op = "GenerateCode" /\ a < j) =>
            ~ \E i \in Calls : a < i /\ i < j /\ trace[i].op = "ElementX"

\* the calls of op made on the selector of step k
CallsOf(op, k) == { i \in Calls : trace[i].op = op /\ trace[i].xpath = Steps[k].xpath }

\* C21: in every state each of the six selectors was looked up at most
\* once and was the target of at most one set-value, one submit and one
\* click; when automateBrowserLogin has returned nil, every step was made
\* exactly once: one lookup per selector, one set-value and one submit per
\* field, one click per button.
C21_NoRetryNoSkip ==
    /\ LET calls == PageCalls
       IN  Cardinality({ <<trace[i].op, trace[i].xpath>> : i \in calls }) = Cardinality(calls)
    /\ (Returned /\ ret = nil) =>
          \A k \in 1..Len(Steps) :
              /\ Cardinality(CallsOf("ElementX", k)) = 1
              /\ Cardinality(CallsOf("Input", k)) = IF Steps[k].kind = "fill" THEN 1 ELSE 0
              /\ Cardinality(CallsOf("Type", k)) = IF Steps[k].kind = "fill" THEN 1 ELSE 0
              /\ Cardinality(CallsOf("Click", k)) = IF Steps[k].kind = "click" THEN 1 ELSE 0

\* C21 witness: automateBrowserLogin has returned nil after the six steps
C21_Witness ==
    /\ pc = "return"
    /\ ret = nil
    /\ Cardinality(PageCalls) = 14
    /\ Ok("ElementX", XPathSuccess)

Types == { i \in Calls : trace[i].op = "Type" }

\* C22: every submit is the Enter key, sent to a field right after the
\* set-value call on the same selector succeeded; a field whose lookup or
\* set-value call failed gets no submit; a click is only ever made on one
\* of the two buttons.
C22_EnterOnTheFieldJustSet ==
    /\ \A t \in Types :
          /\ trace[t].val = "Enter"
          /\ Steps[StepOf(t)].kind = "fill"
          /\ t > 1
          /\ trace[t - 1].op = "Input"
          /\ trace[t - 1].xpath = trace[t].xpath
          /\ trace[t - 1].ok
    /\ \A i \in Calls :
          /\ (trace[i].op \in {"ElementX", "Input"} /\ ~trace[i].ok) =>
                ~ \E t \in Types : trace[t].xpath = trace[i].xpath
          /\ trace[i].op = "Click" => Steps[StepOf(i)].kind = "click"

\* C22 witness: the username was set and submitted, the set-value call on
\* the password field failed, and the run is over
C22_Witness ==
    /\ pc = "return"
    /\ Ok("Type", XPathUsername)
    /\ Failed("Input", XPathPassword)
    /\ ~ \E t \in Types : trace[t].xpath = XPathPassword

Launches == { i \in Calls : trace[i].op = "Launch" }
Connects == { i \in Calls : trace[i].op = "Connect" }
Pages == { i \in Calls : trace[i].op = "Page" }

\* C23: in every state at most one browser was launched, at most one
\* connection was made and at most one page was opened; when a page call
\* was made, exactly one browser was launched and exactly one page opened,
\* both with success, the page was opened on the device URL, and every
\* page call comes after the page was opened and before the session is
\* closed.
C23_OneBrowserOnePage ==
    /\ Cardinality(Launches) <= 1
    /\ Cardinality(Connects) <= 1
    /\ Cardinality(Pages) <= 1
    /\ \A p \in Pages : \E l \in Launches : \E c \in Connects :
          l < c /\ c < p /\ trace[l].ok /\ trace[c].ok
    /\ PageCalls # {} =>
          /\ Cardinality(Launches) = 1
          /\ Cardinality(Pages) = 1
          /\ \A p \in Pages :
                /\ trace[p].ok
                /\ trace[p].url = deviceURL
                /\ \A i \in PageCalls : p < i
          /\ \A c \in Closes : \A i \in PageCalls : i < c

\* C23 witness: the browser was launched, the page opened, and the
\* password field is about to be set
C23_Witness ==
    /\ pc = "Input"
    /\ step = StepPassword
    /\ Cardinality(Launches) = 1
    /\ Cardinality(Pages) = 1

\* the control points inside automateBrowserLogin
InAutomation ==
    pc \in {"Launch", "Connect", "Page", "findElement", "Input", "Type", "Click",
            "getTOTPCode", "checkSuccessMessage", "defer"}

\* C24: no step of automateBrowserLogin, the deferred close included,
\* changes the configuration it was given (username, password, code,
\* secret, device URL, visibility, timeout) or the device URL argument.
C24_ConfigReadOnly ==
    [][InAutomation => (config' = config /\ deviceURL' = deviceURL)]_vars

\* C24 witness: automateBrowserLogin has returned an error after the code
\* was generated from the secret
C24_Witness ==
    /\ pc = "return"
    /\ ret # nil
    /\ config.TOTPSecret # ""
    /\ \E a \in Acquisitions : trace[a].op = "GenerateCode" /\ trace[a].ok

CredentialPrompts == { i \in Prompts : trace[i].val \in {"username", "password"} }

\* what promptForInput makes of the line read: the username line is
\* trimmed, the password is taken as typed
InputOf(i) ==
    IF trace[i].val = "password" THEN trace[i].url[1] ELSE TrimSpace(trace[i].url[1])

\* C25: with the getCredentials of src/config.go, once it has returned
\* without error the username and the password are both non-empty; the
\* value set into the username field or the password field is never
\* empty; a prompt for the username or the password answered with an
\* empty input failed, and the run then ends with the credentials error
\* without any browser call.
C25_CredentialsNeverEmpty ==
    build = "config.go" =>
        /\ CredentialsResolved => (config.Username # "" /\ config.Password # "")
        /\ \A i \in Calls :
              (trace[i].op = "Input" /\ trace[i].xpath \in {XPathUsername, XPathPassword})
                  => trace[i].val # ""
        /\ \A p \in CredentialPrompts :
              InputOf(p) = "" =>
                  /\ ~trace[p].ok
                  /\ pc \in {"exit", "done"}
                  /\ result.kind = "credentials"
                  /\ BrowserCalls = {}
                  /\ pc = "done" => exitCode = 1

\* C25 witness: the username was asked for, an empty line was answered,
\* and the run is over with the credentials error
C25_Witness ==
    /\ build = "config.go"
    /\ pc = "done"
    /\ \E p \in CredentialPrompts :
          trace[p].val = "username" /\ trace[p].url = <<"">> /\ ~trace[p].ok
    /\ result.kind = "credentials"
    /\ exitCode = 1

Matching == { s \in Scans : FindString(trace[s].url) # <<>> }

\* C26: a line read from standard input that holds a match is the last
\* line read: no line before it held a match, nothing is read after it,
\* and the device URL is the match of that line; while no line read held
\* a match no device URL was taken from standard input.
C26_FirstMatchingLineWins ==
    Scans # {} =>
        LET matching == Matching
        IN  /\ \A s \in matching :
                  /\ \A i \in Scans : i <= s
                  /\ \A i \in Scans : i < s => i \notin matching
                  /\ ScanEnds = {}
                  /\ deviceURL = FindString(trace[s].url)
            /\ Cardinality(matching) <= 1
            /\ matching = {} => deviceURL = NoURL

\* C26 witness: a line without a match was read, then a line with one,
\* and the browser is being launched on that match
C26_Witness ==
    /\ Cardinality(Scans) = 2
    /\ Cardinality(Matching) = 1
    /\ deviceURL = UrlPasha
    /\ \E i \in Calls : trace[i].op = "Launch"

=============================================================================
